---- MODULE Spec2Model ----
(***************************************************************************)
(* Model of the fixed-size thread pool of src/src/lib.rs: one owner thread  *)
(* runs ThreadPool::new, ThreadPool::execute and Drop::drop; every Worker   *)
(* runs the loop of the closure spawned in Worker::new.  The mpsc channel   *)
(* is a FIFO queue, the Arc<Mutex<Receiver>> a lock with a poison flag.     *)
(***************************************************************************)
EXTENDS Integers, Sequences, FiniteSets, TLC

\* ---- bounds of the model ------------------------------------------------
MaxSize == 2
MaxJobs == 3

\* ---- state --------------------------------------------------------------
VARIABLES
  size,      \* argument of ThreadPool::new
  pc,        \* position of the owner thread
  channel,   \* mpsc::channel() has been created
  sender,    \* ThreadPool.sender is alive (not yet dropped)
  queue,     \* messages in flight in the channel
  workers,   \* ThreadPool.workers : Vec<Worker>
  wpc,       \* position of each spawned worker thread, by worker id
  message,   \* local `message` of each worker thread
  lock,      \* holder of the Mutex around the Receiver, or None
  poisoned,  \* the Mutex is poisoned
  di,        \* loop index of the two loops of drop
  nextSeq,   \* history: number of messages sent so far
  jobs,      \* history: per submitted Job, how often it ran and its status
  recvLog,   \* history: the receptions, in order
  joinLog    \* history: worker ids whose handle was joined, in order

vars == <<size, pc, channel, sender, queue, workers, wpc, message, lock,
          poisoned, di, nextSeq, jobs, recvLog, joinLog>>

None == -1

NoMessage == [type |-> "None", seq |-> None, job |-> None, fails |-> FALSE]

\* Message::NewJob(job): the closure is job number n; fails says whether it panics
NewJob(s, n, f) == [type |-> "NewJob", seq |-> s, job |-> n, fails |-> f]

\* Message::Terminate
Terminate(s) == [type |-> "Terminate", seq |-> s, job |-> None, fails |-> FALSE]

\* ---- the channel and the shared receiver ----------------------------------
\* a worker thread that has not finished still owns its clone of the Arc
Running(w) == wpc[w] \notin {"exited", "panicked"}

Finished(w) == ~Running(w)

\* the Receiver lives as long as one Arc clone does: the local of new, or a
\* running worker closure
ReceiverAliveFirstOnly ==
  /\ channel
  /\ \/ pc = "new_spawn"
     \/ 0 \in DOMAIN wpc /\ Running(0)

ReceiverAlive ==
  /\ channel
  /\ \/ pc = "new_spawn"
     \/ \E w \in DOMAIN wpc : Running(w)

\* mpsc::channel() is unbounded: send never waits for room
CanSendBounded(q) == Len(q) < 1

CanSend(q) == TRUE

\* sender.send(m): the channel is unbounded and FIFO
SendFront(q, m) == <<m>> \o q

Send(q, m) == Append(q, m)

\* recv(): the message obtained and what is left in the channel
RecvLast(q) == q[Len(q)]

RecvSecond(q) == IF Len(q) > 1 THEN q[2] ELSE q[1]

RecvMessage(q) == Head(q)

RecvKeep(q) == q

RecvRest(q) == Tail(q)

\* ---- ThreadPool::new ------------------------------------------------------
AssertAlways(sz) == TRUE

AssertSize(sz) == sz > 0

NewAssert ==
  /\ pc = "new"
  /\ pc' = IF AssertSize(size) THEN "new_channel" ELSE "new_panicked"
  /\ UNCHANGED <<size, channel, sender, queue, workers, wpc, message, lock,
                 poisoned, di, nextSeq, jobs, recvLog, joinLog>>

NewChannel ==
  /\ pc = "new_channel"
  /\ channel' = TRUE
  /\ sender' = TRUE
  /\ pc' = "new_spawn"
  /\ UNCHANGED <<size, queue, workers, wpc, message, lock, poisoned, di,
                 nextSeq, jobs, recvLog, joinLog>>

\* the range of `for id in 0..size`
IdsInclusive(sz) == 0 .. sz

Ids(sz) == 0 .. (sz - 1)

\* the value of the loop variable `id` in the next iteration
NextIdZero(ws) == 0

NextId(ws) == Len(ws)

\* one iteration: workers.push(Worker::new(id, Arc::clone(&receiver)))
NewSpawn ==
  /\ pc = "new_spawn"
  /\ Len(workers) \in Ids(size)
  /\ LET id == NextId(workers) IN
       /\ workers' = Append(workers, [id |-> id, thread |-> "Some"])
       /\ wpc' = wpc @@ (id :> "lock")
       /\ message' = message @@ (id :> NoMessage)
  /\ UNCHANGED <<size, pc, channel, sender, queue, lock, poisoned, di,
                 nextSeq, jobs, recvLog, joinLog>>

NewReturn ==
  /\ pc = "new_spawn"
  /\ Len(workers) \notin Ids(size)
  /\ pc' = "alive"
  /\ UNCHANGED <<size, channel, sender, queue, workers, wpc, message, lock,
                 poisoned, di, nextSeq, jobs, recvLog, joinLog>>

\* ---- ThreadPool::execute --------------------------------------------------
Execute(f) ==
  /\ pc = "alive"
  /\ Len(jobs) < MaxJobs
  /\ CanSend(queue)
  /\ LET n == Len(jobs) IN
       IF ReceiverAlive
       THEN /\ queue' = Send(queue, NewJob(nextSeq, n, f))
            /\ nextSeq' = nextSeq + 1
            /\ jobs' = Append(jobs, [ran |-> 0, status |-> "queued"])
            /\ pc' = pc
       ELSE /\ pc' = "execute_panicked"
            /\ UNCHANGED <<queue, nextSeq, jobs>>
  /\ UNCHANGED <<size, channel, sender, workers, wpc, message, lock,
                 poisoned, di, recvLog, joinLog>>

\* ---- Drop for ThreadPool --------------------------------------------------
DropBegin ==
  /\ pc = "alive"
  /\ pc' = "drop_send"
  /\ di' = 0
  /\ UNCHANGED <<size, channel, sender, queue, workers, wpc, message, lock,
                 poisoned, nextSeq, jobs, recvLog, joinLog>>

\* the number of iterations of `for _ in &self.workers`
SendCountShort(ws) == Len(ws) - 1

SendCount(ws) == Len(ws)

DropSend ==
  /\ pc = "drop_send"
  /\ di < SendCount(workers)
  /\ CanSend(queue)
  /\ IF ReceiverAlive
     THEN /\ queue' = Send(queue, Terminate(nextSeq))
          /\ nextSeq' = nextSeq + 1
          /\ di' = di + 1
          /\ pc' = pc
     ELSE /\ pc' = "drop_panicked"
          /\ UNCHANGED <<queue, nextSeq, di>>
  /\ UNCHANGED <<size, channel, sender, workers, wpc, message, lock,
                 poisoned, jobs, recvLog, joinLog>>

DropSendDone ==
  /\ pc = "drop_send"
  /\ di >= SendCount(workers)
  /\ pc' = "drop_join"
  /\ di' = 0
  /\ UNCHANGED <<size, channel, sender, queue, workers, wpc, message, lock,
                 poisoned, nextSeq, jobs, recvLog, joinLog>>

\* thread.join() returns once the thread has finished
JoinNoWait(w) == TRUE

JoinReturns(w) == Finished(w)

\* thread.join() is Err when the thread panicked
JoinFailsNever(w) == FALSE

JoinFails(w) == wpc[w] = "panicked"

\* the element of workers visited by iteration i of the second loop
JoinIndexReverse(ws, i) == Len(ws) - i

JoinIndex(ws, i) == i + 1

\* one iteration of `for worker in &mut self.workers`
DropJoin ==
  /\ pc = "drop_join"
  /\ di < Len(workers)
  /\ LET worker == workers[JoinIndex(workers, di)] IN
       IF worker.thread = "Some"
       THEN /\ JoinReturns(worker.id)
            /\ workers' = [workers EXCEPT ![JoinIndex(workers, di)].thread = "None"]
            /\ joinLog' = Append(joinLog, worker.id)
            /\ IF JoinFails(worker.id)
               THEN /\ pc' = "drop_panicked"
                    /\ di' = di
               ELSE /\ pc' = pc
                    /\ di' = di + 1
       ELSE /\ di' = di + 1
            /\ UNCHANGED <<pc, workers, joinLog>>
  /\ UNCHANGED <<size, channel, sender, queue, wpc, message, lock, poisoned,
                 nextSeq, jobs, recvLog>>

DropReturn ==
  /\ pc = "drop_join"
  /\ di >= Len(workers)
  /\ pc' = "dropped"
  /\ UNCHANGED <<size, channel, sender, queue, workers, wpc, message, lock,
                 poisoned, di, nextSeq, jobs, recvLog, joinLog>>

\* after drop (returned or unwinding) the fields of the pool are dropped
DropFields ==
  /\ pc \in {"dropped", "drop_panicked"}
  /\ sender' = FALSE
  /\ pc' = IF pc = "dropped" THEN "freed" ELSE "unwound"
  /\ UNCHANGED <<size, channel, queue, workers, wpc, message, lock, poisoned,
                 di, nextSeq, jobs, recvLog, joinLog>>

\* ---- the worker loop of Worker::new ---------------------------------------
\* lock() blocks until no other thread holds the Mutex
AcquirableAlways(l) == TRUE

Acquirable(l) == l = None

\* receiver.lock().unwrap()
Lock(w) ==
  /\ wpc[w] = "lock"
  /\ Acquirable(lock)
  /\ IF poisoned
     THEN /\ wpc' = [wpc EXCEPT ![w] = "panicked"]
          /\ lock' = lock
     ELSE /\ wpc' = [wpc EXCEPT ![w] = "recv"]
          /\ lock' = w
  /\ UNCHANGED <<size, pc, channel, sender, queue, workers, message,
                 poisoned, di, nextSeq, jobs, recvLog, joinLog>>

\* .recv().unwrap(), the guard still alive
Recv(w) ==
  /\ wpc[w] = "recv"
  /\ lock = w
  /\ queue # <<>> \/ ~sender
  /\ IF queue # <<>>
     THEN /\ message' = [message EXCEPT ![w] = RecvMessage(queue)]
          /\ queue' = RecvRest(queue)
          /\ recvLog' = Append(recvLog, [seq |-> RecvMessage(queue).seq,
                                          type |-> RecvMessage(queue).type,
                                          by |-> w])
          /\ wpc' = [wpc EXCEPT ![w] = "unlock"]
          /\ UNCHANGED <<lock, poisoned>>
     ELSE /\ wpc' = [wpc EXCEPT ![w] = "panicked"]
          /\ lock' = None
          /\ poisoned' = TRUE
          /\ UNCHANGED <<message, queue, recvLog>>
  /\ UNCHANGED <<size, pc, channel, sender, workers, di, nextSeq, jobs, joinLog>>

\* the temporary guard is dropped at the end of the `let message` statement
UnlockLate(w) ==
  /\ wpc[w] = "unlock"
  /\ lock = w
  /\ wpc' = [wpc EXCEPT ![w] = "match"]
  /\ UNCHANGED <<size, pc, channel, sender, queue, workers, message, lock,
                 poisoned, di, nextSeq, jobs, recvLog, joinLog>>

Unlock(w) ==
  /\ wpc[w] = "unlock"
  /\ lock = w
  /\ lock' = None
  /\ wpc' = [wpc EXCEPT ![w] = "match"]
  /\ UNCHANGED <<size, pc, channel, sender, queue, workers, message,
                 poisoned, di, nextSeq, jobs, recvLog, joinLog>>

\* the arm of `match message` that is taken
ArmNoBreak(m) == IF m.type = "NewJob" THEN "job" ELSE "lock"

ArmSkipJob(m) == IF m.type = "NewJob" THEN "lock" ELSE "exited"

Arm(m) == IF m.type = "NewJob" THEN "job" ELSE "exited"

\* match message: NewJob starts job.call_box(), Terminate breaks the loop
Match(w) ==
  /\ wpc[w] = "match"
  /\ LET m == message[w] IN
       /\ wpc' = [wpc EXCEPT ![w] = Arm(m)]
       /\ jobs' = IF m.type = "NewJob" /\ Arm(m) = "job"
                  THEN [jobs EXCEPT ![m.job + 1] =
                          [ran |-> @.ran + 1, status |-> "running"]]
                  ELSE jobs
       /\ message' = IF Arm(m) = "job" THEN message
                     ELSE [message EXCEPT ![w] = NoMessage]
  /\ UNCHANGED <<size, pc, channel, sender, queue, workers, lock, poisoned,
                 di, nextSeq, recvLog, joinLog>>

\* where the thread goes when call_box is over: back to the top of the loop,
\* or out of the closure by unwinding
AfterJobOnce(m) == IF m.fails THEN "panicked" ELSE "exited"

AfterJob(m) == IF m.fails THEN "panicked" ELSE "lock"

\* the guard was dropped before call_box: a panicking Job does not poison
PoisonAfterJobHeld(p, m) == p \/ m.fails

PoisonAfterJob(p, m) == p

\* job.call_box() returns, or panics and unwinds the worker thread
JobReturn(w) ==
  /\ wpc[w] = "job"
  /\ LET m == message[w] IN
       /\ wpc' = [wpc EXCEPT ![w] = AfterJob(m)]
       /\ poisoned' = PoisonAfterJob(poisoned, m)
       /\ jobs' = [jobs EXCEPT ![m.job + 1].status =
                     IF m.fails THEN "failed" ELSE "done"]
       /\ message' = [message EXCEPT ![w] = NoMessage]
  /\ UNCHANGED <<size, pc, channel, sender, queue, workers, lock, di,
                 nextSeq, recvLog, joinLog>>

WorkerStep(w) ==
  \/ Lock(w)
  \/ Recv(w)
  \/ Unlock(w)
  \/ Match(w)
  \/ JobReturn(w)

\* ---- specification --------------------------------------------------------
Init ==
  /\ size \in 0 .. MaxSize
  /\ pc = "new"
  /\ channel = FALSE
  /\ sender = FALSE
  /\ queue = <<>>
  /\ workers = <<>>
  /\ wpc = <<>>
  /\ message = <<>>
  /\ lock = None
  /\ poisoned = FALSE
  /\ di = 0
  /\ nextSeq = 0
  /\ jobs = <<>>
  /\ recvLog = <<>>
  /\ joinLog = <<>>

Next ==
  \/ NewAssert
  \/ NewChannel
  \/ NewSpawn
  \/ NewReturn
  \/ \E f \in BOOLEAN : Execute(f)
  \/ DropBegin
  \/ DropSend
  \/ DropSendDone
  \/ DropJoin
  \/ DropReturn
  \/ DropFields
  \/ \E w \in DOMAIN wpc : Lock(w)
  \/ \E w \in DOMAIN wpc : Recv(w)
  \/ \E w \in DOMAIN wpc : Unlock(w)
  \/ \E w \in DOMAIN wpc : Match(w)
  \/ \E w \in DOMAIN wpc : JobReturn(w)

Spec == Init /\ [][Next]_vars

\* Every thread that can take a step eventually does; the owner is free to
\* keep the pool forever, so execute and the start of drop are not fair.
FairSpec ==
  /\ Spec
  /\ WF_vars(NewAssert \/ NewChannel \/ NewSpawn \/ NewReturn)
  /\ WF_vars(DropSend \/ DropSendDone \/ DropJoin \/ DropReturn \/ DropFields)
  /\ \A w \in Ids(MaxSize) : WF_vars(w \in DOMAIN wpc /\ WorkerStep(w))

TypeOK ==
  /\ size \in 0 .. MaxSize
  /\ lock \in {None} \cup DOMAIN wpc
  /\ Len(jobs) <= MaxJobs

\* ---- vocabulary of the properties -----------------------------------------
WorkerIds == DOMAIN wpc

Busy(w) == wpc[w] = "job"

Idle(w) == wpc[w] \in {"lock", "recv", "unlock", "match"}

Terminated(w) == wpc[w] = "exited"

Dead(w) == wpc[w] = "panicked"

PoolBuilt == pc \notin {"new", "new_channel", "new_spawn", "new_panicked"}

ShutdownBegun ==
  pc \in {"drop_send", "drop_join", "dropped", "drop_panicked", "freed", "unwound"}

ShutdownReturned == pc \in {"dropped", "freed"}

ShutdownEnded == pc \in {"dropped", "freed", "drop_panicked", "unwound"}

AllWorkersDead == PoolBuilt /\ \A w \in WorkerIds : Dead(w)

JobIds == 1 .. MaxJobs

Submitted(j) == j <= Len(jobs)

Ran(j) == j <= Len(jobs) /\ jobs[j].ran = 1

SomeJobFailed == \E j \in 1 .. Len(jobs) : jobs[j].status = "failed"

TermsSent == nextSeq - Len(jobs)

TermsClaimed(w) ==
  Cardinality({i \in 1 .. Len(recvLog) :
                 recvLog[i].by = w /\ recvLog[i].type = "Terminate"})

\* ---- C1 ---------------------------------------------------------------------
\* C1 (as stated): every Job submitted through execute is eventually executed,
\* unless the pool is shut down before the Job is claimed.
C1_EveryJobEventuallyRuns ==
  \A j \in JobIds : Submitted(j) ~> (Ran(j) \/ ShutdownBegun)

\* C1 (amended): no Job is ever executed twice, and every submitted Job is
\* eventually executed exactly once unless the pool is shut down before the Job
\* is claimed or every Worker thread has died from a failed Job.
C1_JobRunsOnceWhileAWorkerLives ==
  /\ [](\A j \in 1 .. Len(jobs) : jobs[j].ran <= 1)
  /\ \A j \in JobIds : Submitted(j) ~> (Ran(j) \/ ShutdownBegun \/ AllWorkersDead)

C1_Witness ==
  /\ pc = "alive"
  /\ Len(jobs) = MaxJobs
  /\ SomeJobFailed
  /\ ~AllWorkersDead
  /\ \A j \in 1 .. Len(jobs) : jobs[j].ran = 1 /\ jobs[j].status # "running"

\* ---- C2 ---------------------------------------------------------------------
\* C2: every message put on the queue (Job or Terminate) is received at most
\* once: no two receptions, by the same or by different Workers, obtain the
\* same message, and a received message is no longer in the queue nor held by
\* two Workers.
C2_MessageReceivedAtMostOnce ==
  /\ \A i, k \in 1 .. Len(recvLog) :
       i # k => recvLog[i].seq # recvLog[k].seq
  /\ \A i \in 1 .. Len(recvLog), k \in 1 .. Len(queue) :
       recvLog[i].seq # queue[k].seq
  /\ \A v, w \in WorkerIds :
       v # w /\ message[v] # NoMessage => message[v].seq # message[w].seq

C2_Witness ==
  /\ \E i, k \in 1 .. Len(recvLog) :
       /\ recvLog[i].by # recvLog[k].by
       /\ recvLog[i].type = "NewJob"
       /\ recvLog[k].type = "Terminate"
  /\ \E v, w \in WorkerIds :
       v # w /\ Busy(v) /\ message[w].type = "Terminate"

\* ---- C3 ---------------------------------------------------------------------
\* C3: in every reachable state the number of Jobs being executed is at most
\* the size the pool was constructed with.
C3_ConcurrencyBoundedBySize ==
  Cardinality({w \in WorkerIds : Busy(w)}) <= size

C3_Witness ==
  /\ size >= 2
  /\ Cardinality({w \in WorkerIds : Busy(w)}) = size
  /\ queue # <<>>

\* ---- C4 ---------------------------------------------------------------------
\* C4: once drop has begun it always ends (Jobs in flight finish, by fairness):
\* it returns, or it panics, and it panics only if some Job failed; it never
\* blocks forever, whatever the size and the number of submitted Jobs.
C4_ShutdownTerminates ==
  /\ (pc \in {"drop_send", "drop_join"}) ~> ShutdownEnded
  /\ [](pc \in {"drop_panicked", "unwound"} => SomeJobFailed)

C4_Witness ==
  /\ pc = "dropped"
  /\ size = 2
  /\ jobs = <<>>

\* ---- C5 ---------------------------------------------------------------------
\* C5: in every state where shutdown has returned, every Worker thread has
\* exited (is Terminated).
C5_WorkersExitedWhenShutdownReturns ==
  ShutdownReturned =>
    /\ WorkerIds = Ids(size)
    /\ \A w \in WorkerIds : Terminated(w)

C5_Witness ==
  /\ pc = "dropped"
  /\ size = MaxSize
  /\ Len(jobs) > 0

\* ---- C6 ---------------------------------------------------------------------
\* C6: when shutdown has returned, every Job submitted before it began has run
\* to completion exactly once.
C6_JobsCompletedWhenShutdownReturns ==
  ShutdownReturned =>
    \A j \in 1 .. Len(jobs) : jobs[j].ran = 1 /\ jobs[j].status = "done"

C6_Witness ==
  /\ pc = "dropped"
  /\ Len(jobs) = MaxJobs
  /\ size >= 2
  /\ Cardinality({recvLog[i].by : i \in {k \in 1 .. Len(recvLog) :
                                           recvLog[k].type = "NewJob"}}) >= 2

\* ---- C7 ---------------------------------------------------------------------
\* C7: once new(size) has returned, and in every later state, there are exactly
\* size Workers (size > 0), their ids are pairwise distinct and cover 0..size-1,
\* and one thread was spawned per id.
C7_ExactlySizeWorkers ==
  PoolBuilt =>
    /\ size > 0
    /\ Len(workers) = size
    /\ \A i \in 1 .. Len(workers) : workers[i].id = i - 1
    /\ WorkerIds = Ids(size)

C7_Witness ==
  /\ pc = "dropped"
  /\ size = MaxSize
  /\ Len(workers) = MaxSize
  /\ jobs # <<>>

\* ---- C8 ---------------------------------------------------------------------
\* C8: new(0) panics at the assertion: no channel and no Worker or thread is
\* ever created and new never returns a pool.
C8_NewZeroFails ==
  size = 0 =>
    /\ pc \in {"new", "new_panicked"}
    /\ ~channel
    /\ workers = <<>>
    /\ WorkerIds = {}

C8_Witness ==
  /\ size = 0
  /\ pc = "new_panicked"

\* ---- C9 ---------------------------------------------------------------------
\* C9: in a pool of size 1, a Job that has been started (running, done or
\* failed) is preceded only by Jobs that have completed: Jobs run one at a
\* time in submission order.
C9_SingleWorkerRunsInOrder ==
  size = 1 =>
    \A j \in 1 .. Len(jobs) :
      jobs[j].status # "queued" =>
        \A i \in 1 .. (j - 1) : jobs[i].status = "done"

C9_Witness ==
  /\ size = 1
  /\ Len(jobs) >= 2
  /\ jobs[1].status = "done"
  /\ jobs[2].status = "running"

FailedJobs == Cardinality({j \in 1 .. Len(jobs) : jobs[j].status = "failed"})

\* C11 (as stated): while shutdown has not started the receive end is alive and
\* the send inside execute succeeds; execute never panics.
C11_SendSucceedsBeforeShutdown ==
  /\ pc = "alive" => ReceiverAlive
  /\ pc # "execute_panicked"

\* C11 (amended): the send inside execute fails only once every Worker thread
\* has died from a failed Job; while fewer Jobs have failed than there are
\* Workers and shutdown has not started, the receive end is alive.
C11_SendFailsOnlyWhenAllWorkersDied ==
  /\ pc = "alive" /\ FailedJobs < size => ReceiverAlive
  /\ pc = "execute_panicked" => FailedJobs = size /\ AllWorkersDead

C11_Witness ==
  /\ pc = "alive"
  /\ size = 2
  /\ FailedJobs = 1
  /\ Len(jobs) = MaxJobs
  /\ jobs[MaxJobs].status = "queued"
  /\ ReceiverAlive

\* ---- C12 --------------------------------------------------------------------
SomeWorkerDead == \E w \in WorkerIds : Dead(w)

\* C12: the death of a Worker thread from a failed Job leaves the others
\* working: the dead thread never holds the lock, the Mutex is never poisoned,
\* the set of Workers stays the size Workers of construction (no replacement),
\* and every Job submitted is still eventually executed as long as one Worker
\* thread is left.
C12_SurvivorsKeepWorking ==
  /\ [](\A w \in WorkerIds : Dead(w) => lock # w)
  /\ [](~poisoned)
  /\ [](PoolBuilt => Len(workers) = size /\ WorkerIds = Ids(size))
  /\ \A j \in JobIds :
       (Submitted(j) /\ SomeWorkerDead) ~> (Ran(j) \/ AllWorkersDead)

C12_Witness ==
  \E v, w \in WorkerIds :
    /\ Dead(v)
    /\ lock = w
    /\ wpc[w] = "recv"
    /\ queue # <<>>
    /\ Head(queue).type = "NewJob"

\* ---- C13 --------------------------------------------------------------------
\* C13: while the pool is alive execute can always take its step, whatever the
\* Workers do (all busy, one holding the lock) and however long the queue is;
\* and as long as a Worker thread is running the step is the successful send
\* that puts the Job on the queue.  (With no Worker thread left the step is
\* the panic of the failed send, not a wait.)
C13_ExecuteNeverBlocks ==
  pc = "alive" /\ Len(jobs) < MaxJobs =>
    /\ ENABLED (\E f \in BOOLEAN : Execute(f))
    /\ ReceiverAlive =>
         ENABLED (\E f \in BOOLEAN :
                    Execute(f) /\ pc' = "alive" /\ Len(queue') = Len(queue) + 1)

C13_Witness ==
  /\ pc = "alive"
  /\ Len(jobs) < MaxJobs
  /\ Len(queue) >= 1
  /\ WorkerIds # {}
  /\ \A w \in WorkerIds : Busy(w)

\* ---- C14 --------------------------------------------------------------------
\* the positions of the worker loop where the MutexGuard temporary is alive
HoldsGuard(w) == wpc[w] \in {"recv", "unlock"}

\* C14: no Worker that is executing a Job holds the lock of the receive end:
\* the holder is always a Worker between lock() and the end of the statement
\* that obtains the message.
C14_LockNotHeldWhileBusy ==
  \A w \in WorkerIds :
    /\ Busy(w) => lock # w
    /\ lock = w => HoldsGuard(w)

C14_Witness ==
  \E v, w \in WorkerIds :
    /\ v # w
    /\ Busy(v)
    /\ lock = w
    /\ wpc[w] = "unlock"

\* ---- C15 --------------------------------------------------------------------
\* C15: at most one Worker at a time is between lock() and the release of the
\* guard, that Worker is the holder recorded by the Mutex, and every reception
\* is made by the holder.
C15_OneLockHolder ==
  /\ Cardinality({w \in WorkerIds : HoldsGuard(w)}) <= 1
  /\ \A w \in WorkerIds : HoldsGuard(w) => lock = w
  /\ \A w \in WorkerIds : wpc[w] = "unlock" =>
       recvLog # <<>> /\ recvLog[Len(recvLog)].by = w

C15_Witness ==
  \E v, w \in WorkerIds :
    /\ v # w
    /\ lock = v
    /\ wpc[v] = "recv"
    /\ queue = <<>>
    /\ wpc[w] = "lock"
    /\ recvLog # <<>>

\* ---- C16 --------------------------------------------------------------------
\* C16: the single producer numbers its messages in send order, and the pool as
\* a whole receives them in exactly that order: the i-th reception, by whichever
\* Worker, obtains the i-th message sent.
C16_ReceivedInSendOrder ==
  \A i \in 1 .. Len(recvLog) : recvLog[i].seq = i - 1

C16_Witness ==
  /\ Len(recvLog) >= 3
  /\ recvLog[1].by # recvLog[2].by
  /\ recvLog[3].by = recvLog[1].by
  /\ queue # <<>>

\* ---- C17 --------------------------------------------------------------------
\* the state of the Worker state machine a thread position belongs to
WorkerState(p) ==
  IF p \in {"lock", "recv", "unlock", "match"} THEN "Idle"
  ELSE IF p = "job" THEN "Busy"
  ELSE "Terminated"

\* C17 (as stated): a Worker only moves Idle -> Busy on a Job, Busy -> Idle when
\* the Job is over, Idle -> Terminated on Terminate; nothing leaves Terminated.
C17_OnlyThreeTransitions ==
  [][\A w \in DOMAIN wpc :
       LET a == WorkerState(wpc[w])
           b == WorkerState(wpc'[w])
       IN \/ a = b
          \/ a = "Idle" /\ b = "Busy" /\ message[w].type = "NewJob"
          \/ a = "Busy" /\ b = "Idle"
          \/ a = "Idle" /\ b = "Terminated" /\ message[w].type = "Terminate"]_vars

\* C17 (amended): besides those three transitions a Worker moves
\* Busy -> Terminated when its Job fails (the panic ends the thread), and makes
\* no other transition; Terminated is absorbing, and the Terminate message a
\* Worker received is the last message it receives.
C17_TransitionsWithJobFailure ==
  /\ [][\A w \in DOMAIN wpc :
          LET a == WorkerState(wpc[w])
              b == WorkerState(wpc'[w])
          IN \/ a = b
             \/ a = "Idle" /\ b = "Busy" /\ message[w].type = "NewJob"
             \/ a = "Busy" /\ b = "Idle" /\ ~message[w].fails
             \/ a = "Busy" /\ b = "Terminated" /\ message[w].fails
             \/ a = "Idle" /\ b = "Terminated" /\ message[w].type = "Terminate"]_vars
  /\ [](\A i, k \in 1 .. Len(recvLog) :
          recvLog[i].type = "Terminate" /\ recvLog[i].by = recvLog[k].by => k <= i)

C17_Witness ==
  \E v, w \in WorkerIds :
    /\ Dead(v)
    /\ Terminated(w)
    /\ \E i \in 1 .. Len(recvLog) : recvLog[i].by = w /\ recvLog[i].type = "NewJob"

\* ---- C18 --------------------------------------------------------------------
\* C18: drop joins nothing before it has sent all its Terminate messages; the
\* handles are joined in increasing Worker-id order starting at 0, a join being
\* recorded only when the thread has finished; a handle is taken (None) exactly
\* when its Worker has been joined, so no handle is joined twice.
C18_JoinInIdOrderOnce ==
  /\ joinLog # <<>> => TermsSent = Len(workers)
  /\ \A i \in 1 .. Len(joinLog) : joinLog[i] = i - 1 /\ Finished(joinLog[i])
  /\ \A i \in 1 .. Len(workers) :
       workers[i].thread = "None" <=>
         \E k \in 1 .. Len(joinLog) : joinLog[k] = workers[i].id

C18_Witness ==
  /\ pc = "drop_join"
  /\ joinLog = <<0>>
  /\ workers[1].thread = "None"
  /\ 1 \in WorkerIds
  /\ Running(1)

\* ---- C19 --------------------------------------------------------------------
ChannelClosed == channel /\ ~sender

AllJoined == \A i \in 1 .. Len(workers) : workers[i].thread = "None"

TermsInQueue ==
  Cardinality({i \in 1 .. Len(queue) : queue[i].type = "Terminate"})

\* a running Worker thread that has not obtained its Terminate message yet
AwaitsTerminate(w) == Running(w) /\ message[w].type # "Terminate"

\* every Worker thread that died, died from the Job it was running: none took
\* the receive-failure branch or found the Mutex poisoned
NoReceiveFailure ==
  /\ ~poisoned
  /\ Cardinality({w \in WorkerIds : Dead(w)}) = FailedJobs

\* C19 (as stated): no receive ever observes a closed channel, because the
\* sending end is released only after every Worker has been joined.
C19_SenderReleasedAfterAllJoined ==
  /\ NoReceiveFailure
  /\ ChannelClosed => AllJoined

\* C19 (amended): no receive ever observes a closed channel.  The sending end
\* is released only after drop has returned, with every Worker joined, or has
\* panicked, which takes a failed Job; and whenever it has been released the
\* queue still holds a Terminate message for every Worker thread that is
\* running and has not obtained one, so no receive finds the channel empty and
\* closed.
C19_NoReceiveOnClosedChannel ==
  /\ NoReceiveFailure
  /\ ChannelClosed =>
       /\ pc \in {"freed", "unwound"}
       /\ pc = "freed" => AllJoined
       /\ pc = "unwound" => SomeJobFailed
       /\ TermsInQueue >= Cardinality({w \in WorkerIds : AwaitsTerminate(w)})

C19_Witness ==
  /\ ChannelClosed
  /\ ~AllJoined
  /\ \E w \in WorkerIds : lock = w /\ wpc[w] = "recv" /\ queue # <<>>

\* ---- C20 --------------------------------------------------------------------
ShutdownPanicked == pc \in {"drop_panicked", "unwound"}

\* drop panicked in its second loop, at the join of a Worker that died: the
\* Terminate messages were all sent, the Workers before it were joined and had
\* exited normally, the Workers after it still have their handle
AbortedAtJoin ==
  /\ TermsSent = Len(workers)
  /\ joinLog # <<>>
  /\ LET last == joinLog[Len(joinLog)] IN
       /\ Dead(last)
       /\ \A k \in 1 .. (Len(joinLog) - 1) : Terminated(joinLog[k])
       /\ \A i \in 1 .. Len(workers) :
            workers[i].id > last => workers[i].thread = "Some"

\* drop panicked in its first loop, at a send that found the Receiver gone:
\* every Worker thread had finished, fewer than N Terminate messages were sent
\* and no Worker was joined
AbortedAtSend ==
  /\ TermsSent < Len(workers)
  /\ joinLog = <<>>
  /\ \A w \in WorkerIds : Finished(w)

\* C20 (as stated): after a Worker died from a failed Job, drop never returns
\* normally; it sends all N Terminate messages and panics at the join of the
\* dead Worker, the Workers with a higher id staying unjoined.
C20_AllTerminatesSentThenJoinFails ==
  /\ SomeJobFailed => ~ShutdownReturned
  /\ ShutdownPanicked => AbortedAtJoin

\* C20 (amended): after a Worker died from a failed Job, drop never returns
\* normally.  It panics at the join of the first dead Worker, all N Terminate
\* messages sent and the Workers with a higher id unjoined; or, when every
\* Worker thread has finished before the N-th send, at that send, before any
\* join.  drop panics only after a Job failed.
C20_ShutdownAbortsAfterJobFailure ==
  /\ SomeJobFailed => ~ShutdownReturned
  /\ ShutdownPanicked => SomeJobFailed /\ (AbortedAtJoin \/ AbortedAtSend)

C20_Witness ==
  /\ pc = "drop_panicked"
  /\ size = 2
  /\ TermsSent = 2
  /\ joinLog = <<0>>
  /\ Dead(0)
  /\ workers[2].thread = "Some"
  /\ Running(1)
====
